---- MODULE Spec2Model ----
(***************************************************************************)
(* A model of the kdtree crate: the selector hoare_b (imported by lib.rs   *)
(* as `partition`), Node::make / Node::insert, KDTree::make / insert /     *)
(* find_nearest and the Point2D capability.                                *)
(*                                                                         *)
(* Vectors are sequences; the code's 0-based indices are kept and a read   *)
(* of data[i] is At(data, i).  Option<T> is a sequence of length 0 (None)  *)
(* or 1 (Some).  A panic (failed assert!, unreachable!, usize underflow)   *)
(* is an outcome of its own: the operators return ok |-> FALSE.            *)
(***************************************************************************)
EXTENDS Integers, Sequences, FiniteSets, TLC

VARIABLES
    array,      \* the Vec handed to the selector
    outcome,    \* what the selector call produced (NotRun before the call)
    phase,      \* "new": no tree yet, "ok": KDTree::make returned, "panic": it panicked
    root,       \* KDTree.root : Option<Node<T>>
    input,      \* the Vec KDTree::make was called with
    inserted,   \* the points handed to KDTree::insert, in call order
    search,     \* argument of the last find_nearest call (None before any)
    best,       \* its return value : Option<&T>
    trace,      \* what the visitor did during that call, in order
    frame       \* the running call of hoare_b::recurse, when followed pass by pass

vars == <<array, outcome, phase, root, input, inserted, search, best, trace, frame>>

\* ---------------------------------------------------------------- bounds
MaxLen == 5        \* longest array handed to the selector
MaxKey == 4        \* array keys are 0..MaxKey
MaxCoord == 2      \* point coordinates are 0..MaxCoord
MaxInput == 2      \* longest Vec handed to KDTree::make
MaxInserts == 3    \* number of KDTree::insert calls

\* ------------------------------------------------------------- utilities
None == <<>>
Some(x) == <<x>>

At(data, i) == data[i + 1]

Min(a, b) == IF a <= b THEN a ELSE b

Ordering_cmp(a, b) == IF a < b THEN "Less" ELSE IF a = b THEN "Equal" ELSE "Greater"

SeqsUpTo(S, n) == UNION {[1..k -> S] : k \in 0..n}

\* Vec::swap
swap(data, i, j) ==
    [k \in 1..Len(data) |-> IF k = i + 1 THEN At(data, j)
                            ELSE IF k = j + 1 THEN At(data, i)
                            ELSE data[k]]

\* ------------------------------------------------------ points.rs Point2D
\* Coordinates are small non-negative integers: f64 represents them, their
\* differences, products and sums exactly, and F64's total_cmp orders them
\* as the integers are ordered.
Point == (0..MaxCoord) \X (0..MaxCoord)

kdkey(p, dimension) == IF dimension % 2 = 0 THEN p[1] ELSE p[2]

distance(lhs, rhs) ==
    LET xdiff == lhs[1] - rhs[1]
        ydiff == lhs[2] - rhs[2]
    IN xdiff * xdiff + ydiff * ydiff

key_distance(lhs, rhs) ==
    LET dist == lhs - rhs
    IN dist * dist

\* ------------------------------------------------------- lib.rs comparators
compare_element(left, right, dimension) ==
    Ordering_cmp(kdkey(left, dimension), kdkey(right, dimension))

\* the closure make_compare returns, as a function of the pair it is applied to
make_compare(dimension) ==
    [pr \in Point \X Point |-> compare_element(pr[1], pr[2], dimension)]

\* u32::cmp, the comparator of the selector's tests
u32_cmp == [pr \in (0..MaxKey) \X (0..MaxKey) |-> Ordering_cmp(pr[1], pr[2])]

\* ------------------------------------------- partition_functions.rs hoare_b
Panicked(data, why) == [ok |-> FALSE, idx |-> 0, data |-> data, why |-> why]
Returned(data, idx) == [ok |-> TRUE, idx |-> idx, data |-> data, why |-> ""]

\* "step l": the first inner while loop; yields the new l and pivot_idx
RECURSIVE step_l(_, _, _, _, _)
step_l(data, l, r, pivot_idx, key_cmp) ==
    IF ~(l < r) THEN [l |-> l, pivot_idx |-> pivot_idx]
    ELSE LET c == key_cmp[<<At(data, l), At(data, pivot_idx)>>]
         IN IF c = "Less" THEN step_l(data, l + 1, r, pivot_idx, key_cmp)
            ELSE IF c = "Equal" THEN [l |-> l, pivot_idx |-> Min(l, pivot_idx)]
            ELSE [l |-> l, pivot_idx |-> pivot_idx]

\* a slip in step r: an element equal to the pivot stops the scan, as one
\* does in step l, instead of being passed over
RECURSIVE step_r_stops_on_equal(_, _, _, _, _)
step_r_stops_on_equal(data, l, r, pivot_idx, key_cmp) ==
    IF ~(l < r) THEN [r |-> r, pivot_idx |-> pivot_idx]
    ELSE LET c == key_cmp[<<At(data, r), At(data, pivot_idx)>>]
         IN IF c = "Less" THEN [r |-> r, pivot_idx |-> pivot_idx]
            ELSE IF c = "Equal" THEN [r |-> r, pivot_idx |-> Min(r, pivot_idx)]
            ELSE step_r_stops_on_equal(data, l, r - 1, pivot_idx, key_cmp)

\* "step r": the second inner while loop; yields the new r and pivot_idx
RECURSIVE step_r(_, _, _, _, _)
step_r(data, l, r, pivot_idx, key_cmp) ==
    IF ~(l < r) THEN [r |-> r, pivot_idx |-> pivot_idx]
    ELSE LET c == key_cmp[<<At(data, r), At(data, pivot_idx)>>]
         IN IF c = "Less" THEN [r |-> r, pivot_idx |-> pivot_idx]
            ELSE IF c = "Equal" THEN step_r(data, l, r - 1, Min(r, pivot_idx), key_cmp)
            ELSE step_r(data, l, r - 1, pivot_idx, key_cmp)

\* the pivot index after data.swap(l, r)
pivot_after_swap(l, r, pivot_idx) ==
    IF r = pivot_idx THEN l
    ELSE IF l = pivot_idx THEN r
    ELSE pivot_idx

\* the outer `loop`: passes of step l, step r, swap until l >= r
RECURSIVE scan(_, _, _, _, _)
scan(data, l, r, pivot_idx, key_cmp) ==
    LET sl == step_l(data, l, r, pivot_idx, key_cmp)
        sr == step_r(data, sl.l, r, sl.pivot_idx, key_cmp)
    IN IF sl.l >= sr.r
       THEN [data |-> data, pivot_idx |-> sr.pivot_idx, l |-> sl.l, r |-> sr.r]
       ELSE scan(swap(data, sl.l, sr.r), sl.l, sr.r,
                 pivot_after_swap(sl.l, sr.r, sr.pivot_idx), key_cmp)

\* the first pivot of a range
pivot_start(left, right) == (right - left) \div 2 + left

\* hoare_b::recurse
RECURSIVE recurse(_, _, _, _, _)
recurse(data, left, target_idx, right, key_cmp) ==
    IF ~(left < right) THEN Panicked(data, "assert left < right")
    ELSE IF ~(right < Len(data)) THEN Panicked(data, "assert right < data.len()")
    ELSE IF ~(left <= target_idx /\ target_idx <= right)
    THEN Panicked(data, "assert target_idx in left..=right")
    ELSE
    LET s == scan(data, left, right, pivot_start(left, right), key_cmp)
    IN IF key_cmp[<<At(s.data, s.pivot_idx), At(s.data, target_idx)>>] = "Equal"
       THEN Returned(s.data, s.pivot_idx)
       ELSE IF target_idx < s.pivot_idx
       THEN recurse(s.data, left, target_idx, s.pivot_idx - 1, key_cmp)
       ELSE IF target_idx = s.pivot_idx
       THEN Panicked(s.data, "unreachable")
       ELSE recurse(s.data, s.pivot_idx + 1, target_idx, right, key_cmp)

\* hoare_b: data.len() - 1 underflows on an empty Vec (a panic in a debug
\* build; in a release build it wraps and assert right < data.len() fails)
hoare_b(data, key_cmp) ==
    IF Len(data) = 0 THEN Panicked(data, "data.len() - 1")
    ELSE recurse(data, 0, Len(data) \div 2, Len(data) - 1, key_cmp)

\* use partition_functions::hoare_b as partition
partition(data, key_cmp) == hoare_b(data, key_cmp)

NotRun == [ok |-> FALSE, idx |-> 0, data |-> <<>>, why |-> "not run"]

\* --------------------------------------------------------------- lib.rs Node
Node_new(data) == [data |-> data, left |-> None, right |-> None]

\* Vec::swap_remove(0): the last element takes the place of the removed one
swap_remove_first(v) ==
    IF Len(v) = 1 THEN <<>>
    ELSE <<v[Len(v)]>> \o SubSeq(v, 2, Len(v) - 1)

\* Node::make; ok |-> FALSE when the build panicked
RECURSIVE Node_make(_, _)
Node_make(data, dimension) ==
    IF data = <<>> THEN [ok |-> TRUE, node |-> None]
    ELSE
    LET p == partition(data, make_compare(dimension))
    IN IF ~p.ok THEN [ok |-> FALSE, node |-> None]
       ELSE IF ~(p.idx < Len(p.data)) THEN [ok |-> FALSE, node |-> None]
       ELSE
       LET split_right == SubSeq(p.data, p.idx + 1, Len(p.data))
           element == split_right[1]
           l == Node_make(SubSeq(p.data, 1, p.idx), dimension + 1)
           r == Node_make(swap_remove_first(split_right), dimension + 1)
       IN IF split_right = <<>> \/ ~l.ok \/ ~r.ok THEN [ok |-> FALSE, node |-> None]
          ELSE [ok |-> TRUE,
                node |-> Some([data |-> element, left |-> l.node, right |-> r.node])]

\* the child slot Node::insert descends into
insert_goes_left(selfkey, datakey) == selfkey < datakey

\* Node::insert
RECURSIVE Node_insert(_, _, _)
Node_insert(node, data, dimension) ==
    LET selfkey == kdkey(node.data, dimension)
        datakey == kdkey(data, dimension)
    IN IF insert_goes_left(selfkey, datakey)
       THEN IF node.left # None
            THEN [node EXCEPT !.left = Some(Node_insert(node.left[1], data, dimension + 1))]
            ELSE [node EXCEPT !.left = Some(Node_new(data))]
       ELSE IF node.right # None
            THEN [node EXCEPT !.right = Some(Node_insert(node.right[1], data, dimension + 1))]
            ELSE [node EXCEPT !.right = Some(Node_new(data))]

\* ------------------------------------------------- lib.rs find_nearest / Vizz
\* Vizz::new, with the log of what the visitor does
Vizz_new(s) == [dimension |-> 0, best |-> None, distance |-> None, search |-> s, log |-> <<>>]

inc_dimension(v) == [v EXCEPT !.dimension = @ + 1]
dec_dimension(v) == [v EXCEPT !.dimension = @ - 1]

\* Vizz::cmp
Vizz_cmp(v, lhs, rhs) == Ordering_cmp(kdkey(lhs, v.dimension), kdkey(rhs, v.dimension))

\* one entry of the log: where the visitor is and what it holds
Event(kind, path, v) ==
    [ev |-> kind, path |-> path, dimension |-> v.dimension,
     after |-> v.distance, best |-> v.best]

Logged(v, kind, path) == [v EXCEPT !.log = Append(@, Event(kind, path, v))]

\* the order of the two children in Vizz::visit: TRUE when visit_left is first
left_first(v, node) == Vizz_cmp(v, v.search, node.data) = "Less"

\* "check if current is better"
is_better(distance_, curr_dist) ==
    IF distance_ = None THEN TRUE ELSE curr_dist < distance_[1]

\* a slip in the pruning test: the far side is entered on equality too
traverse_second_on_equal(distance_, target_to_split) == distance_[1] >= target_to_split

\* "if current best range is wrapping over to other side of split"
traverse_second(distance_, target_to_split) == distance_[1] > target_to_split

RECURSIVE visit(_, _, _)

\* Visitor::visit_left; path is the position of `node` in the tree
visit_left(v, node, path) ==
    IF node.left # None
    THEN dec_dimension(visit(inc_dimension(v), node.left[1], Append(path, "L")))
    ELSE v

\* Visitor::visit_right
visit_right(v, node, path) ==
    IF node.right # None
    THEN dec_dimension(visit(inc_dimension(v), node.right[1], Append(path, "R")))
    ELSE v

\* Vizz::visit
visit(v, node, path) ==
    LET lf == left_first(v, node)
        v0 == Logged(v, "enter", path)
        v1 == IF lf THEN visit_left(v0, node, path) ELSE visit_right(v0, node, path)
        curr_dist == distance(v1.search, node.data)
        v2 == IF is_better(v1.distance, curr_dist)
              THEN [v1 EXCEPT !.best = Some(node.data), !.distance = Some(curr_dist)]
              ELSE v1
        v3 == Logged(v2, "self", path)
        target_to_split == key_distance(kdkey(v3.search, v3.dimension),
                                        kdkey(node.data, v3.dimension))
        v4 == IF traverse_second(v3.distance, target_to_split)
              THEN IF lf THEN visit_right(v3, node, path) ELSE visit_left(v3, node, path)
              ELSE v3
    IN Logged(v4, "exit", path)

\* KDTree::find_nearest: the visitor after the walk
find_nearest(tree, s) ==
    IF tree # None THEN visit(Vizz_new(s), tree[1], <<>>) ELSE Vizz_new(s)

\* --------------------------------- hoare_b::recurse followed pass by pass
\* The fields are the parameters and locals of recurse; `passes` counts the
\* passes of the scan loop in the current call and `calls` the recursive
\* calls made so far.
NoFrame ==
    [pc |-> "idle", data |-> <<>>, left |-> 0, target_idx |-> 0, right |-> 0,
     pivot_idx |-> 0, l |-> 0, r |-> 0, passes |-> 0, calls |-> 0]

\* the call recurse(data, left, target_idx, right, key_cmp) about to start
Call(data, left, target_idx, right, calls) ==
    [pc |-> "entry", data |-> data, left |-> left, target_idx |-> target_idx,
     right |-> right, pivot_idx |-> 0, l |-> 0, r |-> 0, passes |-> 0, calls |-> calls]

\* ------------------------------------------------------------------ actions
Arrays == SeqsUpTo(0..MaxKey, MaxLen) \ {<<>>}
Inputs == SeqsUpTo(Point, MaxInput)

TreeIdle ==
    /\ phase = "new" /\ root = None /\ input = <<>> /\ inserted = <<>>
    /\ search = None /\ best = None /\ trace = <<>>

Init ==
    /\ array = <<>>
    /\ outcome = NotRun
    /\ frame = NoFrame
    /\ TreeIdle

\* KDTree::make
KDTree_make ==
    /\ phase = "new"
    /\ \E data \in Inputs :
          LET m == Node_make(data, 0)
          IN /\ input' = data
             /\ phase' = IF m.ok THEN "ok" ELSE "panic"
             /\ root' = m.node
    /\ UNCHANGED <<array, outcome, inserted, search, best, trace, frame>>

\* KDTree::insert.  It takes &mut self, so the reference an earlier
\* find_nearest returned is dead by now: the query's results are dropped.
KDTree_insert ==
    /\ phase = "ok"
    /\ Len(inserted) < MaxInserts
    /\ \E data \in Point :
          /\ root' = IF root # None THEN Some(Node_insert(root[1], data, 0))
                     ELSE Some(Node_new(data))
          /\ inserted' = Append(inserted, data)
    /\ search' = None /\ best' = None /\ trace' = <<>>
    /\ UNCHANGED <<array, outcome, phase, input, frame>>

\* KDTree::find_nearest
KDTree_find_nearest ==
    /\ phase = "ok"
    /\ \E s \in Point :
          LET v == find_nearest(root, s)
          IN /\ search' = Some(s)
             /\ best' = v.best
             /\ trace' = v.log
    /\ UNCHANGED <<array, outcome, phase, root, input, inserted, frame>>

Next == KDTree_make \/ KDTree_insert \/ KDTree_find_nearest

Spec == Init /\ [][Next]_vars

\* the selector on its own, on every array within the bounds
InitPartition ==
    /\ array \in Arrays
    /\ outcome = NotRun
    /\ frame = NoFrame
    /\ TreeIdle

Partition ==
    /\ outcome = NotRun
    /\ outcome' = partition(array, u32_cmp)
    /\ UNCHANGED <<array, phase, root, input, inserted, search, best, trace, frame>>

NextPartition == Partition

SpecPartition == InitPartition /\ [][NextPartition]_vars

\* ------------------------------------------------- vocabulary of the claims
Range(f) == {f[i] : i \in DOMAIN f}

\* the points of a subtree, left to right
RECURSIVE PointsOf(_)
PointsOf(opt) ==
    IF opt = None THEN <<>>
    ELSE PointsOf(opt[1].left) \o <<opt[1].data>> \o PointsOf(opt[1].right)

BagOf(sq) == [x \in Range(sq) |-> Cardinality({i \in DOMAIN sq : sq[i] = x})]

\* the subtree at a position ("L"/"R" steps from the root), None when absent
RECURSIVE NodeAt(_, _)
NodeAt(opt, path) ==
    IF opt = None THEN None
    ELSE IF path = <<>> THEN opt
    ELSE NodeAt(IF Head(path) = "L" THEN opt[1].left ELSE opt[1].right, Tail(path))

\* the positions of a subtree's nodes
RECURSIVE PathsOf(_, _)
PathsOf(opt, path) ==
    IF opt = None THEN {}
    ELSE {path} \cup PathsOf(opt[1].left, Append(path, "L"))
                \cup PathsOf(opt[1].right, Append(path, "R"))

IsPrefix(p, sq) == Len(p) <= Len(sq) /\ SubSeq(sq, 1, Len(p)) = p

\* every node splits its subtrees on the axis of its depth
RECURSIVE SplitInvariant(_, _)
SplitInvariant(opt, depth) ==
    \/ opt = None
    \/ LET n == opt[1]
       IN /\ \A x \in Range(PointsOf(n.left)) : kdkey(x, depth) < kdkey(n.data, depth)
          /\ \A x \in Range(PointsOf(n.right)) : kdkey(x, depth) >= kdkey(n.data, depth)
          /\ SplitInvariant(n.left, depth + 1)
          /\ SplitInvariant(n.right, depth + 1)

\* the result of a linear scan: the least distance from q to a point of pts
MinDistance(q, pts) ==
    CHOOSE d \in {distance(q, x) : x \in Range(pts)} :
        \A x \in Range(pts) : d <= distance(q, x)

Distinct(sq) == \A i, j \in DOMAIN sq : i # j => sq[i] # sq[j]

Made == phase # "new"
Selected == outcome # NotRun

\* ------------------------------------------------------ claims, the selector
\* C2: the index the selector returns splits the rearranged array: it is
\* below the length, every element before it has a strictly smaller key and
\* every element from it on has a key that is greater or equal.
C2_SplitAroundReturnedIndex ==
    outcome.ok =>
        /\ outcome.idx < Len(outcome.data)
        /\ \A i \in 0..(outcome.idx - 1) : At(outcome.data, i) < At(outcome.data, outcome.idx)
        /\ \A i \in outcome.idx..(Len(outcome.data) - 1) :
               At(outcome.data, i) >= At(outcome.data, outcome.idx)

\* C6: on every non-empty array the selector returns an index whose high
\* side is at least as large as its low side: len - idx >= idx.
C6_HighSideAtLeastLowSide ==
    Selected => /\ outcome.ok
                /\ Len(array) - outcome.idx >= outcome.idx

\* C7: on every non-empty array of pairwise distinct keys the selector
\* returns exactly len / 2 (so 0 for one element, 1 for [1, 2]).
C7_DistinctKeysReturnMiddle ==
    (Selected /\ Distinct(array)) => /\ outcome.ok
                                     /\ outcome.idx = Len(array) \div 2

\* what holds of the indices the selector does return
ReturnedIndexBalanced == outcome.ok => Len(array) - outcome.idx >= outcome.idx
ReturnedIndexMiddleWhenDistinct ==
    (outcome.ok /\ Distinct(array)) => outcome.idx = Len(array) \div 2
ReturnedIsPermutation == outcome.ok => BagOf(outcome.data) = BagOf(array)

\* ---------------------------------------------------------- claims, the tree
\* C1: for a non-empty collection, find_nearest on the tree KDTree::make
\* returns yields, for every query point, a point of the collection whose
\* distance to the query is the least distance of a linear scan.
C1_NearestEqualsLinearScan ==
    (Made /\ input # <<>> /\ inserted = <<>>) =>
        /\ phase = "ok"
        /\ \A q \in Point :
              LET v == find_nearest(root, q)
              IN /\ v.best # None
                 /\ v.best[1] \in Range(input)
                 /\ distance(q, v.best[1]) = MinDistance(q, input)

\* C3: the tree KDTree::make returns satisfies the split invariant at every
\* node: left subtree keys strictly smaller, right subtree keys greater or
\* equal, on the axis of the node's depth.
C3_SplitInvariantAfterMake ==
    (Made /\ inserted = <<>>) => /\ phase = "ok"
                                 /\ SplitInvariant(root, 0)

\* C4: after any sequence of inserts, find_nearest(p) for every inserted
\* point p returns a stored point at distance zero from p.
C4_InsertedPointFound ==
    phase = "ok" =>
        \A i \in DOMAIN inserted :
            LET v == find_nearest(root, inserted[i])
            IN /\ v.best # None
               /\ distance(inserted[i], v.best[1]) = 0

\* C5: insert preserves the split invariant: when it holds of every node
\* before KDTree::insert it holds of every node after.
C5_InsertPreservesSplitInvariant ==
    [][SplitInvariant(root, 0) => SplitInvariant(root', 0)]_vars

\* C8: KDTree::make runs to completion on every collection: no assertion,
\* unreachable!() or index underflow is hit during the build.
C8_MakeRunsToCompletion == phase # "panic"

\* C9: after KDTree::make and any sequence of inserts the tree stores exactly
\* the multiset of the input collection plus the inserted points; an insert
\* adds one leaf and leaves every existing node where and what it was.
C9_StoredPointsAreInputPlusInserted ==
    /\ [](Made => /\ phase = "ok"
                  /\ BagOf(PointsOf(root)) = BagOf(input \o inserted))
    /\ [][inserted' # inserted =>
            LET old == PathsOf(root, <<>>)
                new == PathsOf(root', <<>>)
            IN /\ old \subseteq new
               /\ Cardinality(new \ old) = 1
               /\ \A p \in old : NodeAt(root', p)[1].data = NodeAt(root, p)[1].data
               /\ \A p \in new \ old :
                     /\ NodeAt(root', p)[1] = Node_new(inserted'[Len(inserted')])
          ]_vars

\* what holds of the trees that inserts grow from the empty tree
InsertKeepsPoints ==
    phase = "ok" => BagOf(PointsOf(root)) = BagOf(input \o inserted)

\* --------------------------------------------------- claims, the traversal
Visited == {trace[i].path : i \in DOMAIN trace}

EventsOf(kind, p) == {i \in DOMAIN trace : trace[i].ev = kind /\ trace[i].path = p}

IndexOf(kind, p) == CHOOSE i \in DOMAIN trace : trace[i].ev = kind /\ trace[i].path = p

\* the child on the query's side of a node's split, and the other one
NearPath(q, p) ==
    LET n == NodeAt(root, p)[1]
    IN Append(p, IF kdkey(q, Len(p)) < kdkey(n.data, Len(p)) THEN "L" ELSE "R")

FarPath(q, p) ==
    LET n == NodeAt(root, p)[1]
    IN Append(p, IF kdkey(q, Len(p)) < kdkey(n.data, Len(p)) THEN "R" ELSE "L")

\* the best distance and point just before the i-th event
DistanceBefore(i) == IF i = 1 THEN None ELSE trace[i - 1].after
BestBefore(i) == IF i = 1 THEN None ELSE trace[i - 1].best

\* C10: at every node find_nearest visits, the near child's subtree (left
\* when the query's key on the axis of the node's depth is strictly smaller
\* than the node's, else right) is traversed first and completely; then the
\* node's point replaces the best exactly when there is no best or it is
\* strictly closer; then the far child's subtree is traversed exactly when
\* the best distance is strictly greater than the key distance to the node.
\* The dimension counter is the node's depth on entry and again on exit.
C10_VisitOrder ==
    search # None =>
    LET q == search[1]
    IN /\ root = None => trace = <<>>
       /\ root # None => /\ trace # <<>>
                         /\ trace[1].ev = "enter" /\ trace[1].path = <<>>
                         /\ best = trace[Len(trace)].best
       /\ \A p \in Visited :
          /\ NodeAt(root, p) # None
          /\ Cardinality(EventsOf("enter", p)) = 1
          /\ Cardinality(EventsOf("self", p)) = 1
          /\ Cardinality(EventsOf("exit", p)) = 1
          /\ LET n == NodeAt(root, p)[1]
                 e == IndexOf("enter", p)
                 s == IndexOf("self", p)
                 x == IndexOf("exit", p)
                 curr == distance(q, n.data)
                 replaces == DistanceBefore(s) = None \/ curr < DistanceBefore(s)[1]
                 split == key_distance(kdkey(q, Len(p)), kdkey(n.data, Len(p)))
             IN /\ e < s /\ s < x
                /\ trace[e].dimension = Len(p)
                /\ trace[s].dimension = Len(p)
                /\ trace[x].dimension = Len(p)
                /\ \A i \in DOMAIN trace :
                      IsPrefix(p, trace[i].path) <=> (e <= i /\ i <= x)
                /\ \A i \in DOMAIN trace :
                      IsPrefix(NearPath(q, p), trace[i].path) => (e < i /\ i < s)
                /\ \A i \in DOMAIN trace :
                      IsPrefix(FarPath(q, p), trace[i].path) => (s < i /\ i < x)
                /\ NodeAt(root, NearPath(q, p)) # None => NearPath(q, p) \in Visited
                /\ trace[s].after = IF replaces THEN Some(curr) ELSE DistanceBefore(s)
                /\ trace[s].best = IF replaces THEN Some(n.data) ELSE BestBefore(s)
                /\ NodeAt(root, FarPath(q, p)) # None =>
                      (FarPath(q, p) \in Visited <=> trace[s].after[1] > split)

\* a query that traverses one far subtree, prunes another and meets a node
\* that is not better than the best so far
C10_Witness ==
    /\ search # None
    /\ \E p \in Visited : /\ NodeAt(root, FarPath(search[1], p)) # None
                          /\ FarPath(search[1], p) \in Visited
    /\ \E p \in Visited : /\ NodeAt(root, FarPath(search[1], p)) # None
                          /\ FarPath(search[1], p) \notin Visited
    /\ \E i \in DOMAIN trace : /\ trace[i].ev = "self"
                               /\ trace[i].after = DistanceBefore(i)

\* ------------------------------------------ the selector, pass by pass
InitSelect ==
    /\ array \in Arrays
    /\ outcome = NotRun
    /\ frame = Call(array, 0, Len(array) \div 2, Len(array) - 1, 0)
    /\ TreeIdle

TreeUntouched == UNCHANGED <<array, phase, root, input, inserted, search, best, trace>>

\* recurse up to the scan loop: the three assertions, pivot_idx, l and r
Enter ==
    /\ frame.pc = "entry"
    /\ IF ~(frame.left < frame.right)
       THEN /\ outcome' = Panicked(frame.data, "assert left < right")
            /\ frame' = [frame EXCEPT !.pc = "done"]
       ELSE IF ~(frame.right < Len(frame.data))
       THEN /\ outcome' = Panicked(frame.data, "assert right < data.len()")
            /\ frame' = [frame EXCEPT !.pc = "done"]
       ELSE IF ~(frame.left <= frame.target_idx /\ frame.target_idx <= frame.right)
       THEN /\ outcome' = Panicked(frame.data, "assert target_idx in left..=right")
            /\ frame' = [frame EXCEPT !.pc = "done"]
       ELSE /\ outcome' = outcome
            /\ frame' = [frame EXCEPT !.pc = "loop",
                                      !.pivot_idx = pivot_start(frame.left, frame.right),
                                      !.l = frame.left,
                                      !.r = frame.right]
    /\ TreeUntouched

\* one pass of the scan loop: step l, step r, then break or swap
Pass ==
    /\ frame.pc = "loop"
    /\ LET sl == step_l(frame.data, frame.l, frame.r, frame.pivot_idx, u32_cmp)
           sr == step_r(frame.data, sl.l, frame.r, sl.pivot_idx, u32_cmp)
       IN IF sl.l >= sr.r
          THEN frame' = [frame EXCEPT !.pc = "decide", !.l = sl.l, !.r = sr.r,
                                      !.pivot_idx = sr.pivot_idx,
                                      !.passes = @ + 1]
          ELSE frame' = [frame EXCEPT !.data = swap(frame.data, sl.l, sr.r),
                                      !.l = sl.l, !.r = sr.r,
                                      !.pivot_idx = pivot_after_swap(sl.l, sr.r, sr.pivot_idx),
                                      !.passes = @ + 1]
    /\ outcome' = outcome
    /\ TreeUntouched

\* after the loop: return pivot_idx or call recurse on one side of it
Decide ==
    /\ frame.pc = "decide"
    /\ IF u32_cmp[<<At(frame.data, frame.pivot_idx), At(frame.data, frame.target_idx)>>] = "Equal"
       THEN /\ outcome' = Returned(frame.data, frame.pivot_idx)
            /\ frame' = [frame EXCEPT !.pc = "done"]
       ELSE IF frame.target_idx < frame.pivot_idx
       THEN /\ outcome' = outcome
            /\ frame' = Call(frame.data, frame.left, frame.target_idx,
                             frame.pivot_idx - 1, frame.calls + 1)
       ELSE IF frame.target_idx = frame.pivot_idx
       THEN /\ outcome' = Panicked(frame.data, "unreachable")
            /\ frame' = [frame EXCEPT !.pc = "done"]
       ELSE /\ outcome' = outcome
            /\ frame' = Call(frame.data, frame.pivot_idx + 1, frame.target_idx,
                             frame.right, frame.calls + 1)
    /\ TreeUntouched

NextSelect == Enter \/ Pass \/ Decide

\* the call runs on its thread until it returns or panics
SpecSelect == InitSelect /\ [][NextSelect]_vars /\ WF_vars(NextSelect)

\* the passes add up to what hoare_b computes in one go
SelectAgreesWithHoareB ==
    frame.pc = "done" => outcome = hoare_b(array, u32_cmp)

\* ------------------------------------------------- claims, termination
ScanWidth(f) == f.r - f.l

\* a recursive call: made on a strictly smaller sub-range of [left, right]
\* that still contains the (unchanged) target index
CallShrinksRange ==
    (frame.pc = "decide" /\ frame'.pc = "entry") =>
        /\ frame.left <= frame'.left
        /\ frame'.right <= frame.right
        /\ frame'.right - frame'.left < frame.right - frame.left
        /\ frame'.target_idx = frame.target_idx
        /\ frame'.left <= frame'.target_idx
        /\ frame'.target_idx <= frame'.right

\* the loop is left exactly when l >= r
LoopEndsWhenMet ==
    frame.pc = "loop" => (frame'.pc = "decide" <=> frame'.l >= frame'.r)

\* C11 as stated: the selector always stops, each pass of the scan loop
\* strictly decreases r - l until l >= r, and every recursive call is made
\* on a strictly smaller sub-range that still contains the target index.
C11_EveryPassShrinksScan ==
    /\ <>(frame.pc = "done")
    /\ [][/\ frame.pc = "loop" => ScanWidth(frame') < ScanWidth(frame)
          /\ LoopEndsWhenMet
          /\ CallShrinksRange]_vars

\* C11 as the code has it: the selector always stops (it returns an index
\* or panics on an assertion); in every call the first pass of the scan
\* loop never increases r - l and swaps when it leaves r - l unchanged,
\* every later pass strictly decreases r - l, until l >= r; every recursive
\* call is made on a strictly smaller sub-range that contains the target.
C11_SelectorStops ==
    /\ <>(frame.pc = "done")
    /\ [][/\ frame.pc = "loop" =>
               /\ ScanWidth(frame') <= ScanWidth(frame)
               /\ frame.passes >= 1 => ScanWidth(frame') < ScanWidth(frame)
               /\ ScanWidth(frame') = ScanWidth(frame) =>
                     /\ frame'.pc = "loop"
                     /\ frame'.data = swap(frame.data, frame.l, frame.r)
                     /\ frame'.data # frame.data
          /\ LoopEndsWhenMet
          /\ CallShrinksRange]_vars

\* a call that recursed, then needed a swap and a further pass, and returned
C11_Witness ==
    /\ frame.pc = "done"
    /\ outcome.ok
    /\ frame.calls >= 1
    /\ frame.passes >= 2

====
